---------------------------- MODULE Spec2Model ----------------------------
(***************************************************************************)
(* A model of drivers/input/misc/rotary_encoder.c: the probe routine, the  *)
(* threaded interrupt handlers of the three quadrature decoders and of the *)
(* absolute encoder, the poll callback, the event reporter and the         *)
(* encoder's access_mutex.                                                 *)
(*                                                                         *)
(* The sensor lines are the environment: every read of the lines returns   *)
(* any combination of levels.  An edge on a line whose interrupt has been  *)
(* requested may start that line's handler thread at any time.             *)
(***************************************************************************)
EXTENDS Integers, Sequences, FiniteSets

VARIABLES
    props,         \* the device properties and platform facts probe reads
    probe_pc,      \* where rotary_encoder_probe stands
    probe_i,       \* probe's loop index i (lines are numbered from 1 here)
    probe_err,     \* why probe failed, "none" while it has not
    handler,       \* probe's local 'handler'
    encoder,       \* struct rotary_encoder
    irqs,          \* the lines whose threaded interrupt is requested
    poll_dev,      \* the polled device is registered
    access_mutex,  \* encoder->access_mutex: the set of its owners (none or one)
    pc,            \* each callback thread's position
    state,         \* each callback thread's local 'state' while it is live
    log            \* history: one entry per sample delivered to a decoder

vars == <<props, probe_pc, probe_i, probe_err, handler, encoder, irqs,
          poll_dev, access_mutex, pc, state, log>>

-----------------------------------------------------------------------------
(* Bounds of the model *)

\* the most sensor lines a device has
MaxLines == 3
\* the largest "rotary-encoder,steps-per-period" value tried
MaxStepsPerPeriod == 8
\* the largest "rotary-encoder,steps" value tried with the whole driver
MaxSteps == 2
\* the most samples delivered while the whole driver runs, probe included
MaxProbeSamples == 2
\* the most samples delivered to the decoders of a probed encoder
MaxSamples == 5
\* the width in bits of unsigned int / u32 (32 in the build, scaled down)
UIntBits == 4

UIntModulus == 2 ^ UIntBits

\* the thread of the polled device; interrupt threads carry their line's number
PollThread == 0
Threads == 0 .. MaxLines

-----------------------------------------------------------------------------
(* Channel sampler *)

RECURSIVE get_state_from(_, _, _)
get_state_from(vals, i, ret) ==
    IF i > Len(vals) THEN ret
    ELSE LET val == IF ret % 2 = 1 THEN 1 - vals[i] ELSE vals[i]
         IN  get_state_from(vals, i + 1, ret * 2 + val)

\* gray to binary over the lines, the low two bits kept
rotary_encoder_get_state(vals) == get_state_from(vals, 1, 0) % 4

RECURSIVE get_gpios_state_from(_, _, _)
get_gpios_state_from(vals, i, ret) ==
    IF i > Len(vals) THEN ret
    ELSE get_gpios_state_from(vals, i + 1, ret * 2 + vals[i])

\* the raw concatenation of the line levels
rotary_encoder_get_gpios_state(vals) == get_gpios_state_from(vals, 1, 0)

\* every combination of levels n lines can show
Levels(n) == [1 .. n -> {0, 1}]

-----------------------------------------------------------------------------
(* Event reporter *)

\* Seeded fault: the clamp of line 106 off by one (pos <= steps).
report_pos_past_steps(e) ==
    LET pos0 == e.pos
        pos1 == IF e.dir < 0
                THEN LET a == IF e.rollover
                              THEN (pos0 + e.steps) % UIntModulus
                              ELSE pos0
                     IN  IF a # 0 THEN a - 1 ELSE a
                ELSE IF e.rollover \/ pos0 <= e.steps
                     THEN (pos0 + 1) % UIntModulus
                     ELSE pos0
    IN  IF e.rollover THEN pos1 % e.steps ELSE pos1

\* the position computed by lines 96-111, before it is stored
report_pos(e) ==
    LET pos0 == e.pos
        pos1 == IF e.dir < 0
                THEN LET a == IF e.rollover
                              THEN (pos0 + e.steps) % UIntModulus
                              ELSE pos0
                     IN  IF a # 0 THEN a - 1 ELSE a
                ELSE IF e.rollover \/ pos0 < e.steps
                     THEN (pos0 + 1) % UIntModulus
                     ELSE pos0
    IN  IF e.rollover THEN pos1 % e.steps ELSE pos1

\* Seeded fault: the reporter advancing the position on a relative axis too.
rotary_encoder_report_event_rel_counting(e) ==
    IF e.relative_axis
    THEN IF e.input
         THEN [pos |-> (e.pos + 1) % UIntModulus, ev |-> "rel",
               value |-> e.dir, fault |-> FALSE]
         ELSE [pos |-> e.pos, ev |-> "none", value |-> 0, fault |-> TRUE]
    ELSE IF e.rollover /\ e.steps = 0
         THEN [pos |-> e.pos, ev |-> "none", value |-> 0, fault |-> TRUE]
         ELSE IF e.input
              THEN [pos |-> report_pos(e), ev |-> "abs",
                    value |-> report_pos(e), fault |-> FALSE]
              ELSE [pos |-> report_pos(e), ev |-> "none", value |-> 0,
                    fault |-> TRUE]

\* What one call of rotary_encoder_report_event does: the position it
\* leaves, the event it hands to the input device, and whether the call
\* faults (pos %= 0, or a report through a NULL encoder->input).
rotary_encoder_report_event(e) ==
    IF e.relative_axis
    THEN IF e.input
         THEN [pos |-> e.pos, ev |-> "rel", value |-> e.dir, fault |-> FALSE]
         ELSE [pos |-> e.pos, ev |-> "none", value |-> 0, fault |-> TRUE]
    ELSE IF e.rollover /\ e.steps = 0
         THEN [pos |-> e.pos, ev |-> "none", value |-> 0, fault |-> TRUE]
         ELSE IF e.input
              THEN [pos |-> report_pos(e), ev |-> "abs",
                    value |-> report_pos(e), fault |-> FALSE]
              ELSE [pos |-> report_pos(e), ev |-> "none", value |-> 0,
                    fault |-> TRUE]

-----------------------------------------------------------------------------
(* History *)

\* One delivered sample: who took it, its value, the decoder state it met,
\* and what was reported for it.
Entry(t, s, e, r) ==
    [src |-> IF t = PollThread THEN "poll" ELSE "irq", state |-> s, armed |-> e.armed, last |-> e.last_stable,
     pos0 |-> e.pos, pos |-> r.pos, dir |-> r.dir, ev |-> r.ev,
     value |-> r.value, fault |-> r.fault]

\* a delivery that called no reporter
NoReport(e) == [pos |-> e.pos, dir |-> e.dir, ev |-> "none", value |-> 0,
                fault |-> FALSE]

\* a delivery that called rotary_encoder_report_event with encoder e
Report(e) ==
    LET r == rotary_encoder_report_event(e)
    IN  [pos |-> r.pos, dir |-> e.dir, ev |-> r.ev, value |-> r.value,
         fault |-> r.fault]

\* a delivery that reported the raw value s with input_report_abs
ReportRaw(e, s) ==
    IF e.input
    THEN [pos |-> e.pos, dir |-> e.dir, ev |-> "abs", value |-> s,
          fault |-> FALSE]
    ELSE [pos |-> e.pos, dir |-> e.dir, ev |-> "none", value |-> 0,
          fault |-> TRUE]

-----------------------------------------------------------------------------
(* Construction: rotary_encoder_probe *)

\* the lines of the device
Lines == 1 .. props.ndescs

\* The configurations tried.  ndescs = 0 stands for devm_gpiod_get_array
\* failing; nirqs is the number of leading lines gpiod_to_irq maps to an
\* interrupt; poll_support is CONFIG_INPUT_GPIO_ROTARY_ENCODER_POLL_MODE_SUPPORT;
\* samples is the number of samples the environment delivers.
\* A property the configured path never reads is left at one value.
AxisProps ==
    { a \in [relative_axis : BOOLEAN, rollover : BOOLEAN, steps : {0, MaxSteps}] :
        a.relative_axis => (~a.rollover /\ a.steps = 0) }

QuadratureProps ==
    { [ndescs |-> n, steps_per_period |-> spp, absolute_encoder |-> FALSE,
       relative_axis |-> a.relative_axis, rollover |-> a.rollover,
       steps |-> a.steps, nirqs |-> n, poll_support |-> FALSE,
       samples |-> MaxProbeSamples] :
        n \in 0 .. MaxLines, spp \in 0 .. MaxStepsPerPeriod, a \in AxisProps }

AbsoluteProps ==
    { [ndescs |-> n, steps_per_period |-> spp, absolute_encoder |-> TRUE,
       relative_axis |-> FALSE, rollover |-> FALSE, steps |-> MaxSteps,
       nirqs |-> k, poll_support |-> ps, samples |-> MaxProbeSamples] :
        n \in 0 .. MaxLines, spp \in {1, 3}, k \in 0 .. MaxLines,
        ps \in BOOLEAN }

Props == QuadratureProps \cup { p \in AbsoluteProps : p.nirqs <= p.ndescs }

\* devm_kzalloc: every field zero
ZeroEncoder ==
    [input |-> FALSE, steps |-> 0, relative_axis |-> FALSE, rollover |-> FALSE,
     absolute_encoder |-> FALSE, pos |-> 0, armed |-> FALSE, dir |-> 0,
     last_stable |-> 0]

Init ==
    /\ props \in Props
    /\ probe_pc = "start"
    /\ probe_i = 1
    /\ probe_err = "none"
    /\ handler = "none"
    /\ encoder = ZeroEncoder
    /\ irqs = {}
    /\ poll_dev = FALSE
    /\ access_mutex = {}
    /\ pc = [t \in Threads |-> "idle"]
    /\ state = [t \in Threads |-> 0]
    /\ log = <<>>

\* Seeded fault: the ratio taken without the shift by the extra lines.
effective_ratio_unshifted(spp, n) == spp

\* steps_per_period >> (ndescs - 2)
effective_ratio(spp, n) == spp \div (2 ^ (n - 2))

\* the switch of lines 323-341: the handler chosen, "none" for the default case
select_handler(spp, n) ==
    CASE effective_ratio(spp, n) = 4 -> "rotary_encoder_quarter_period_irq"
      [] effective_ratio(spp, n) = 2 -> "rotary_encoder_half_period_irq"
      [] effective_ratio(spp, n) = 1 -> "rotary_encoder_irq"
      [] OTHER -> "none"

\* the handlers that take their first last_stable from a sample in probe
SamplesInProbe == {"rotary_encoder_quarter_period_irq",
                   "rotary_encoder_half_period_irq"}

\* the handler probe settles on, absolute_encoder first
probe_handler(p) ==
    IF p.absolute_encoder THEN "rotary_absolute_encoder_irq"
    ELSE select_handler(p.steps_per_period, p.ndescs)

\* Lines 277-349: the properties are read, the lines counted, the handler
\* chosen, and for half and quarter period the lines sampled once.
ProbeConfigure ==
    /\ probe_pc = "start"
    /\ UNCHANGED <<props, probe_i, irqs, poll_dev, access_mutex, pc, state, log>>
    /\ LET e == [encoder EXCEPT !.steps = props.steps,
                                !.rollover = props.rollover,
                                !.relative_axis = props.relative_axis]
       IN  IF props.ndescs = 0
           THEN /\ probe_pc' = "failed" /\ probe_err' = "gpios"
                /\ encoder' = e /\ handler' = handler
           ELSE IF props.ndescs < 2
           THEN /\ probe_pc' = "failed" /\ probe_err' = "not enough gpios"
                /\ encoder' = e /\ handler' = handler
           ELSE LET h  == probe_handler(props)
                    e2 == [e EXCEPT !.absolute_encoder = props.absolute_encoder]
                IN  /\ handler' = h
                    /\ IF h = "none"
                       THEN /\ probe_pc' = "failed"
                            /\ probe_err' = "steps-per-period"
                            /\ encoder' = e2
                       ELSE /\ probe_pc' = "request"
                            /\ probe_err' = probe_err
                            /\ IF h \in SamplesInProbe
                               THEN \E vals \in Levels(props.ndescs) :
                                      encoder' = [e2 EXCEPT !.last_stable =
                                          rotary_encoder_get_state(vals)]
                               ELSE encoder' = e2

\* Lines 351-376, one turn of the loop: line probe_i's interrupt is requested,
\* or (no interrupt for the line, absolute encoder, poll support built in) the
\* polled device is registered and probe returns.
ProbeRequestIrq ==
    /\ probe_pc = "request"
    /\ UNCHANGED <<props, handler, access_mutex, pc, state, log>>
    /\ IF probe_i > props.nirqs
       THEN IF props.absolute_encoder /\ props.poll_support
            THEN /\ encoder' = [encoder EXCEPT !.input = TRUE]
                 /\ poll_dev' = TRUE
                 /\ probe_pc' = "done"
                 /\ UNCHANGED <<probe_i, probe_err, irqs>>
            ELSE /\ probe_pc' = "unwind"
                 /\ probe_err' = "irq"
                 /\ UNCHANGED <<probe_i, encoder, irqs, poll_dev>>
       ELSE /\ irqs' = irqs \cup {probe_i}
            /\ probe_i' = probe_i + 1
            /\ probe_pc' = IF probe_i = props.ndescs THEN "input" ELSE "request"
            /\ UNCHANGED <<probe_err, encoder, poll_dev>>

\* Lines 378-394: the input device is allocated, attached and registered
\* (the allocations and the registration taken to succeed).
ProbeInput ==
    /\ probe_pc = "input"
    /\ encoder' = [encoder EXCEPT !.input = TRUE]
    /\ probe_pc' = "done"
    /\ UNCHANGED <<props, probe_i, probe_err, handler, irqs, poll_dev,
                   access_mutex, pc, state, log>>

\* A failed probe's managed resources are released: free_irq waits for the
\* running handler threads, then no interrupt is left requested.
ProbeUnwind ==
    /\ probe_pc = "unwind"
    /\ \A t \in irqs : pc[t] = "idle"
    /\ irqs' = {}
    /\ probe_pc' = "failed"
    /\ UNCHANGED <<props, probe_i, probe_err, handler, encoder, poll_dev,
                   access_mutex, pc, state, log>>

-----------------------------------------------------------------------------
(* Callbacks: the threaded interrupt handlers and the poll callback *)

\* the value an unsigned result has once stored in a signed char
signed_char(x) == LET m == x % 256 IN IF m >= 128 THEN m - 256 ELSE m

\* handler invocations begun so far; props.samples is the most that begin
Started == Len(log) + Cardinality({t \in Threads : pc[t] = "locked"})

\* the thread's position after its decode step: on to the release, or dead
\* in the fault with the mutex still held
after_report(r, next) == IF r.fault THEN "oops" ELSE next

\* mutex_lock at the head of every interrupt handler (lines 125, 158, 181,
\* 222): the thread of a requested line proceeds once the mutex is free.
irq_mutex_lock(t) ==
    /\ t \in irqs
    /\ pc[t] = "idle"
    /\ access_mutex = {}
    /\ Started < props.samples
    /\ access_mutex' = {t}
    /\ pc' = [pc EXCEPT ![t] = "locked"]
    /\ UNCHANGED <<props, probe_pc, probe_i, probe_err, handler, encoder, irqs,
                   poll_dev, state, log>>

\* Seeded fault: the full-period transition with the direction of the
\* mid-transition sample negated (state - 2 for 2 - state).
full_period_step_negated(e, s) ==
    CASE s = 0 -> IF e.armed
                  THEN [enc |-> [e EXCEPT !.pos = Report(e).pos,
                                          !.armed = Report(e).fault],
                        rep |-> Report(e)]
                  ELSE [enc |-> e, rep |-> NoReport(e)]
      [] s \in {1, 3} -> IF e.armed
                         THEN [enc |-> [e EXCEPT !.dir = signed_char(s - 2)],
                               rep |-> NoReport(e)]
                         ELSE [enc |-> e, rep |-> NoReport(e)]
      [] OTHER -> [enc |-> [e EXCEPT !.armed = TRUE], rep |-> NoReport(e)]

\* the full-period transition on sample s (lines 129-146)
full_period_step(e, s) ==
    CASE s = 0 -> IF e.armed
                  THEN [enc |-> [e EXCEPT !.pos = Report(e).pos,
                                          !.armed = Report(e).fault],
                        rep |-> Report(e)]
                  ELSE [enc |-> e, rep |-> NoReport(e)]
      [] s \in {1, 3} -> IF e.armed
                         THEN [enc |-> [e EXCEPT !.dir = signed_char(2 - s)],
                               rep |-> NoReport(e)]
                         ELSE [enc |-> e, rep |-> NoReport(e)]
      [] OTHER -> [enc |-> [e EXCEPT !.armed = TRUE], rep |-> NoReport(e)]

\* rotary_encoder_irq, lines 127-146
rotary_encoder_irq(t) ==
    /\ handler = "rotary_encoder_irq"
    /\ pc[t] = "locked"
    /\ \E vals \in Levels(props.ndescs) :
         LET s == rotary_encoder_get_state(vals)
             d == full_period_step(encoder, s)
         IN  /\ encoder' = d.enc
             /\ log' = Append(log, Entry(t, s, encoder, d.rep))
             /\ pc' = [pc EXCEPT ![t] = after_report(d.rep, "unlock")]
    /\ UNCHANGED <<props, probe_pc, probe_i, probe_err, handler, irqs,
                   poll_dev, access_mutex, state>>

\* Seeded fault: the half-period direction with the operands of the
\* subtraction exchanged.
half_period_dir_exchanged(last_stable, s) ==
    signed_char(((s - last_stable + 1) % 4) - 1)

\* the direction an odd sample s leaves (line 163)
half_period_dir(last_stable, s) == signed_char(((last_stable - s + 1) % 4) - 1)

\* Seeded fault: the half-period transition without the comparison of an
\* even sample with last_stable.
half_period_step_unchecked(e, s) ==
    IF s % 2 = 1
    THEN [enc |-> [e EXCEPT !.dir = half_period_dir(e.last_stable, s)],
          rep |-> NoReport(e)]
    ELSE [enc |-> [e EXCEPT !.pos = Report(e).pos,
                            !.last_stable = IF Report(e).fault THEN @ ELSE s],
          rep |-> Report(e)]

\* Seeded fault: the half-period transition storing last_stable on every
\* sample, as the quarter-period decoder does.
half_period_step_storing(e, s) ==
    IF s % 2 = 1
    THEN [enc |-> [e EXCEPT !.dir = half_period_dir(e.last_stable, s),
                            !.last_stable = s],
          rep |-> NoReport(e)]
    ELSE IF s # e.last_stable
         THEN [enc |-> [e EXCEPT !.pos = Report(e).pos,
                                 !.last_stable =
                                     IF Report(e).fault THEN @ ELSE s],
               rep |-> Report(e)]
         ELSE [enc |-> e, rep |-> NoReport(e)]

\* the half-period transition on sample s (lines 162-169)
half_period_step(e, s) ==
    IF s % 2 = 1
    THEN [enc |-> [e EXCEPT !.dir = half_period_dir(e.last_stable, s)],
          rep |-> NoReport(e)]
    ELSE IF s # e.last_stable
         THEN [enc |-> [e EXCEPT !.pos = Report(e).pos,
                                 !.last_stable =
                                     IF Report(e).fault THEN @ ELSE s],
               rep |-> Report(e)]
         ELSE [enc |-> e, rep |-> NoReport(e)]

\* rotary_encoder_half_period_irq, lines 160-169
rotary_encoder_half_period_irq(t) ==
    /\ handler = "rotary_encoder_half_period_irq"
    /\ pc[t] = "locked"
    /\ \E vals \in Levels(props.ndescs) :
         LET s == rotary_encoder_get_state(vals)
             d == half_period_step(encoder, s)
         IN  /\ encoder' = d.enc
             /\ log' = Append(log, Entry(t, s, encoder, d.rep))
             /\ pc' = [pc EXCEPT ![t] = after_report(d.rep, "unlock")]
    /\ UNCHANGED <<props, probe_pc, probe_i, probe_err, handler, irqs,
                   poll_dev, access_mutex, state>>

\* Seeded fault: the quarter-period direction with the two comparisons
\* giving each other's sign.
quarter_period_dir_swapped(last_stable, s) ==
    IF (last_stable + 1) % 4 = s THEN -1
    ELSE IF last_stable = (s + 1) % 4 THEN 1
    ELSE 0

\* the direction the quarter-period decoder gives sample s, 0 for none
\* (lines 185-190)
quarter_period_dir(last_stable, s) ==
    IF (last_stable + 1) % 4 = s THEN 1
    ELSE IF last_stable = (s + 1) % 4 THEN -1
    ELSE 0

\* Seeded fault: the quarter-period transition with a rejected sample
\* leaving last_stable as it was ('goto out' past the store).
quarter_period_step_skipping(e, s) ==
    LET d == quarter_period_dir(e.last_stable, s)
        e1 == [e EXCEPT !.dir = d]
    IN  IF d # 0
        THEN [enc |-> [e1 EXCEPT !.pos = Report(e1).pos,
                                 !.last_stable =
                                     IF Report(e1).fault THEN @ ELSE s],
              rep |-> Report(e1)]
        ELSE [enc |-> e, rep |-> NoReport(e)]

\* the quarter-period transition on sample s (lines 185-195)
quarter_period_step(e, s) ==
    LET d == quarter_period_dir(e.last_stable, s)
        e1 == [e EXCEPT !.dir = d]
    IN  IF d # 0
        THEN [enc |-> [e1 EXCEPT !.pos = Report(e1).pos,
                                 !.last_stable =
                                     IF Report(e1).fault THEN @ ELSE s],
              rep |-> Report(e1)]
        ELSE [enc |-> [e EXCEPT !.last_stable = s], rep |-> NoReport(e)]

\* rotary_encoder_quarter_period_irq, lines 183-195
rotary_encoder_quarter_period_irq(t) ==
    /\ handler = "rotary_encoder_quarter_period_irq"
    /\ pc[t] = "locked"
    /\ \E vals \in Levels(props.ndescs) :
         LET s == rotary_encoder_get_state(vals)
             d == quarter_period_step(encoder, s)
         IN  /\ encoder' = d.enc
             /\ log' = Append(log, Entry(t, s, encoder, d.rep))
             /\ pc' = [pc EXCEPT ![t] = after_report(d.rep, "unlock")]
    /\ UNCHANGED <<props, probe_pc, probe_i, probe_err, handler, irqs,
                   poll_dev, access_mutex, state>>

\* mutex_unlock and return at the tail of the three quadrature handlers
\* (lines 148, 171, 196)
irq_mutex_unlock(t) ==
    /\ pc[t] = "unlock"
    /\ access_mutex' = access_mutex \ {t}
    /\ pc' = [pc EXCEPT ![t] = "idle"]
    /\ UNCHANGED <<props, probe_pc, probe_i, probe_err, handler, encoder, irqs,
                   poll_dev, state, log>>

\* The change detection of the absolute decoder (lines 224-227, 240-244):
\* the raw sample is read and compared with last_stable and, when it
\* differs, reported.  The store of last_stable is the thread's next step.
absolute_sample(t, next_same, next_changed) ==
    \E vals \in Levels(props.ndescs) :
        LET s == rotary_encoder_get_gpios_state(vals)
            r == IF s # encoder.last_stable THEN ReportRaw(encoder, s)
                 ELSE NoReport(encoder)
        IN  /\ state' = [state EXCEPT ![t] =
                            IF s # encoder.last_stable /\ ~r.fault THEN s ELSE 0]
            /\ log' = Append(log, Entry(t, s, encoder, r))
            /\ pc' = [pc EXCEPT ![t] =
                         IF s # encoder.last_stable
                         THEN after_report(r, next_changed)
                         ELSE next_same]

\* rotary_absolute_encoder_irq, lines 224-227
rotary_absolute_encoder_irq_sample(t) ==
    /\ handler = "rotary_absolute_encoder_irq"
    /\ pc[t] = "locked"
    /\ absolute_sample(t, "relock", "store")
    /\ UNCHANGED <<props, probe_pc, probe_i, probe_err, handler, encoder, irqs,
                   poll_dev, access_mutex>>

\* rotary_absolute_encoder_irq, line 228
rotary_absolute_encoder_irq_store(t) ==
    /\ t # PollThread
    /\ pc[t] = "store"
    /\ encoder' = [encoder EXCEPT !.last_stable = state[t]]
    /\ pc' = [pc EXCEPT ![t] = "relock"]
    /\ state' = [state EXCEPT ![t] = 0]
    /\ UNCHANGED <<props, probe_pc, probe_i, probe_err, handler, irqs,
                   poll_dev, access_mutex, log>>

\* rotary_absolute_encoder_irq, line 231: mutex_lock once more.  The call
\* returns only if the mutex is free; held (by this very thread), the thread
\* sleeps in it.
rotary_absolute_encoder_irq_relock(t) ==
    /\ pc[t] = "relock"
    /\ IF access_mutex = {}
       THEN /\ access_mutex' = {t}
            /\ pc' = [pc EXCEPT ![t] = "idle"]
       ELSE /\ access_mutex' = access_mutex
            /\ pc' = [pc EXCEPT ![t] = "blocked"]
    /\ UNCHANGED <<props, probe_pc, probe_i, probe_err, handler, encoder, irqs,
                   poll_dev, state, log>>

\* rotary_encoder_poll_gpios, lines 240-244: no mutex is taken
rotary_encoder_poll_gpios_sample ==
    /\ poll_dev
    /\ pc[PollThread] = "idle"
    /\ Started < props.samples
    /\ absolute_sample(PollThread, "idle", "store")
    /\ UNCHANGED <<props, probe_pc, probe_i, probe_err, handler, encoder, irqs,
                   poll_dev, access_mutex>>

\* rotary_encoder_poll_gpios, line 245
rotary_encoder_poll_gpios_store ==
    /\ pc[PollThread] = "store"
    /\ encoder' = [encoder EXCEPT !.last_stable = state[PollThread]]
    /\ pc' = [pc EXCEPT ![PollThread] = "idle"]
    /\ state' = [state EXCEPT ![PollThread] = 0]
    /\ UNCHANGED <<props, probe_pc, probe_i, probe_err, handler, irqs,
                   poll_dev, access_mutex, log>>

Next ==
    \/ ProbeConfigure
    \/ ProbeRequestIrq
    \/ ProbeInput
    \/ ProbeUnwind
    \/ \E t \in 1 .. MaxLines :
         \/ irq_mutex_lock(t)
         \/ rotary_encoder_irq(t)
         \/ rotary_encoder_half_period_irq(t)
         \/ rotary_encoder_quarter_period_irq(t)
         \/ irq_mutex_unlock(t)
         \/ rotary_absolute_encoder_irq_sample(t)
         \/ rotary_absolute_encoder_irq_store(t)
         \/ rotary_absolute_encoder_irq_relock(t)
    \/ rotary_encoder_poll_gpios_sample
    \/ rotary_encoder_poll_gpios_store

Spec == Init /\ [][Next]_vars

-----------------------------------------------------------------------------
(* The interrupt handlers of a probed encoder: longer sample sequences *)

\* The two-line configurations probe accepts with an interrupt on each line:
\* the quadrature ones, those left out whose reporter divides by zero
\* (rollover with steps = 0), and the absolute encoder.
DecodeProps ==
    { [ndescs |-> 2, steps_per_period |-> spp, absolute_encoder |-> FALSE,
       relative_axis |-> a.relative_axis, rollover |-> a.rollover,
       steps |-> a.steps, nirqs |-> 2, poll_support |-> FALSE,
       samples |-> MaxSamples] :
        spp \in {1, 2, 4},
        a \in { x \in AxisProps : x.rollover => x.steps >= 1 } }
    \cup
    { p \in AbsoluteProps : p.ndescs = 2 /\ p.nirqs = 2 /\ ~p.poll_support }

\* the encoder as a successful probe of p leaves it, s its first last_stable
ProbedEncoder(p, s) ==
    [ZeroEncoder EXCEPT !.input = TRUE, !.steps = p.steps,
                        !.relative_axis = p.relative_axis,
                        !.rollover = p.rollover,
                        !.absolute_encoder = p.absolute_encoder,
                        !.last_stable = s]

\* the states in which probe has just returned 0 and no callback has run
InitDecode ==
    /\ props \in DecodeProps
    /\ probe_pc = "done"
    /\ probe_i = props.ndescs + 1
    /\ probe_err = "none"
    /\ handler = probe_handler(props)
    /\ \E s \in 0 .. 3 :
         /\ handler \notin SamplesInProbe => s = 0
         /\ encoder = ProbedEncoder(props, s)
    /\ irqs = 1 .. props.ndescs
    /\ poll_dev = FALSE
    /\ access_mutex = {}
    /\ pc = [t \in Threads |-> "idle"]
    /\ state = [t \in Threads |-> 0]
    /\ log = <<>>

NextDecode ==
    \E t \in 1 .. MaxLines :
        \/ irq_mutex_lock(t)
        \/ rotary_encoder_irq(t)
        \/ rotary_encoder_half_period_irq(t)
        \/ rotary_encoder_quarter_period_irq(t)
        \/ irq_mutex_unlock(t)
        \/ rotary_absolute_encoder_irq_sample(t)
        \/ rotary_absolute_encoder_irq_store(t)
        \/ rotary_absolute_encoder_irq_relock(t)

SpecDecode == InitDecode /\ [][NextDecode]_vars

\* the transition of quadrature handler h on sample s
handler_step(h, e, s) ==
    CASE h = "rotary_encoder_irq" -> full_period_step(e, s)
      [] h = "rotary_encoder_half_period_irq" -> half_period_step(e, s)
      [] h = "rotary_encoder_quarter_period_irq" -> quarter_period_step(e, s)

\* the directions of the events handler h emits when it is invoked once for
\* each of the samples seq[i], seq[i + 1], ... from encoder e
RECURSIVE decoded_dirs(_, _, _, _)
decoded_dirs(h, e, seq, i) ==
    IF i > Len(seq) THEN {}
    ELSE LET d == handler_step(h, e, seq[i])
         IN  (IF d.rep.ev # "none" THEN {d.rep.dir} ELSE {})
                 \cup decoded_dirs(h, d.enc, seq, i + 1)

\* the steps of line t's handler thread once it owns the mutex
handler_thread(t) ==
    \/ rotary_encoder_irq(t)
    \/ rotary_encoder_half_period_irq(t)
    \/ rotary_encoder_quarter_period_irq(t)
    \/ irq_mutex_unlock(t)
    \/ rotary_absolute_encoder_irq_sample(t)
    \/ rotary_absolute_encoder_irq_store(t)
    \/ rotary_absolute_encoder_irq_relock(t)

\* Fair scheduling: a handler thread that can run does run.  Nothing makes
\* the lines raise a further interrupt.
SpecDecodeFair ==
    SpecDecode /\ \A t \in 1 .. MaxLines : WF_vars(handler_thread(t))

-----------------------------------------------------------------------------
(* The absolute decoder of a probed encoder, interrupt driven or polled *)

\* The two-line absolute configurations probe accepts: an interrupt on each
\* line, or no interrupt on the first line and the polled device instead.
AbsoluteDecodeProps ==
    { [p EXCEPT !.samples = MaxSamples] :
        p \in { q \in AbsoluteProps :
                   /\ q.ndescs = 2
                   /\ \/ q.nirqs = 2 /\ ~q.poll_support
                      \/ q.nirqs = 0 /\ q.poll_support } }

\* the states in which probe has just returned 0 and no callback has run
InitAbsolute ==
    /\ props \in AbsoluteDecodeProps
    /\ probe_pc = "done"
    /\ probe_i = props.nirqs + 1
    /\ probe_err = "none"
    /\ handler = probe_handler(props)
    /\ encoder = ProbedEncoder(props, 0)
    /\ irqs = 1 .. props.nirqs
    /\ poll_dev = props.poll_support
    /\ access_mutex = {}
    /\ pc = [t \in Threads |-> "idle"]
    /\ state = [t \in Threads |-> 0]
    /\ log = <<>>

NextAbsolute ==
    \/ \E t \in 1 .. MaxLines :
         \/ irq_mutex_lock(t)
         \/ rotary_absolute_encoder_irq_sample(t)
         \/ rotary_absolute_encoder_irq_store(t)
         \/ rotary_absolute_encoder_irq_relock(t)
    \/ rotary_encoder_poll_gpios_sample
    \/ rotary_encoder_poll_gpios_store

SpecAbsolute == InitAbsolute /\ [][NextAbsolute]_vars

-----------------------------------------------------------------------------
(* The event reporter alone, over every steps value of the integer width *)

\* the directions a decoder can leave in encoder->dir
Dirs == {-1, 0, 1, 2}

ReportProps ==
    { [ndescs |-> 2, steps_per_period |-> 4, absolute_encoder |-> FALSE,
       relative_axis |-> rel, rollover |-> ro, steps |-> st, nirqs |-> 2,
       poll_support |-> FALSE, samples |-> 0] :
        rel \in BOOLEAN, ro \in BOOLEAN, st \in 0 .. UIntModulus - 1 }

InitReport ==
    /\ props \in ReportProps
    /\ probe_pc = "done"
    /\ probe_i = props.ndescs + 1
    /\ probe_err = "none"
    /\ handler = probe_handler(props)
    /\ encoder = ProbedEncoder(props, 0)
    /\ irqs = 1 .. props.ndescs
    /\ poll_dev = FALSE
    /\ access_mutex = {}
    /\ pc = [t \in Threads |-> "idle"]
    /\ state = [t \in Threads |-> 0]
    /\ log = <<>>

\* One call of rotary_encoder_report_event with direction d in encoder->dir;
\* the history keeps the last two calls.
report_event_call(d) ==
    LET e == [encoder EXCEPT !.dir = d]
        r == Report(e)
        entry == Entry(1, 0, e, r)
    IN  /\ pc[1] = "idle"
        /\ encoder' = [e EXCEPT !.pos = r.pos]
        /\ log' = IF Len(log) < 2 THEN Append(log, entry)
                  ELSE <<log[2], entry>>
        /\ pc' = [pc EXCEPT ![1] = after_report(r, "idle")]
        /\ UNCHANGED <<props, probe_pc, probe_i, probe_err, handler, irqs,
                       poll_dev, access_mutex, state>>

NextReport == \E d \in Dirs : report_event_call(d)

SpecReport == InitReport /\ [][NextReport]_vars

-----------------------------------------------------------------------------
(* Properties *)

\* what the history says of delivery j
Emitted(j) == log[j].ev # "none"
\* armed and last_stable as delivery j left them
ArmedAfter(j) == IF j < Len(log) THEN log[j + 1].armed ELSE encoder.armed
LastAfter(j) == IF j < Len(log) THEN log[j + 1].last ELSE encoder.last_stable
\* a relative event carries the direction itself
RelCarriesDir(j) == log[j].ev = "rel" => log[j].value = log[j].dir

\* deliveries i .. i+3 are the samples 0, 2, m, 0 met by a disarmed
\* full-period decoder
FullPeriodTurn(i, m) ==
    /\ handler = "rotary_encoder_irq"
    /\ i + 3 <= Len(log)
    /\ ~log[i].armed
    /\ log[i].state = 0 /\ log[i + 1].state = 2
    /\ log[i + 2].state = m /\ log[i + 3].state = 0

\* C1: full period, not armed: the samples 00, 10, 01, 00 emit one event, of
\* direction +1, on the final 00 and none before; 00, 10, 11, 00 emit one
\* event of direction -1 on the final 00; the commit leaves armed false.
C1_FullPeriodRoundTrip ==
    \A i \in 1 .. Len(log) : \A m \in {1, 3} :
        FullPeriodTurn(i, m) =>
            /\ ~Emitted(i) /\ ~Emitted(i + 1) /\ ~Emitted(i + 2)
            /\ Emitted(i + 3)
            /\ log[i + 3].dir = (IF m = 1 THEN 1 ELSE -1)
            /\ RelCarriesDir(i + 3)
            /\ ~ArmedAfter(i + 3)

C1_Witness ==
    /\ FullPeriodTurn(1, 1)
    /\ Emitted(4) /\ log[4].dir = 1 /\ ~encoder.armed

\* C2: full period, not armed: sample 10 followed directly by sample 00
\* emits no event.
C2_BounceEmitsNothing ==
    \A i \in 1 .. Len(log) :
        ( /\ handler = "rotary_encoder_irq"
          /\ i + 1 <= Len(log)
          /\ ~log[i].armed
          /\ log[i].state = 2 /\ log[i + 1].state = 0 )
        => ~Emitted(i + 1)

\* C3: quarter period, last_stable L, sample S: S = L+1 mod 4 emits one event
\* of direction +1, L = S+1 mod 4 one of direction -1, any other S none; and
\* last_stable is S afterwards in every case.
C3_QuarterPeriodAdjacency ==
    \A j \in 1 .. Len(log) :
        handler = "rotary_encoder_quarter_period_irq" =>
            LET L == log[j].last
                S == log[j].state
            IN  /\ S = (L + 1) % 4 => Emitted(j) /\ log[j].dir = 1
                /\ L = (S + 1) % 4 => Emitted(j) /\ log[j].dir = -1
                /\ (S = L \/ S = (L + 2) % 4) => ~Emitted(j)
                /\ RelCarriesDir(j)
                /\ LastAfter(j) = S

C3_Witness ==
    /\ handler = "rotary_encoder_quarter_period_irq"
    /\ Len(log) = 2
    /\ log[1].last = 0 /\ log[1].state = 2 /\ ~Emitted(1)
    /\ log[2].last = 2 /\ log[2].state = 1 /\ Emitted(2) /\ log[2].dir = -1
    /\ encoder.last_stable = 1

\* C4: half period: an odd sample emits nothing and leaves last_stable; an
\* even sample emits one event exactly when it differs from last_stable, and
\* last_stable then becomes the sample; from last_stable = 0 the samples 1, 2
\* emit one event and leave last_stable = 2.
C4_HalfPeriodCommit ==
    \A j \in 1 .. Len(log) :
        handler = "rotary_encoder_half_period_irq" =>
            LET L == log[j].last
                S == log[j].state
            IN  /\ S % 2 = 1 => ~Emitted(j) /\ LastAfter(j) = L
                /\ S % 2 = 0 => /\ Emitted(j) <=> S # L
                                /\ LastAfter(j) = S
                /\ ( /\ j < Len(log) /\ L = 0 /\ S = 1
                     /\ log[j + 1].state = 2 )
                   => /\ ~Emitted(j) /\ Emitted(j + 1)
                      /\ LastAfter(j + 1) = 2

C4_Witness ==
    /\ handler = "rotary_encoder_half_period_irq"
    /\ Len(log) = 3
    /\ log[1].last = 0 /\ log[1].state = 1 /\ ~Emitted(1)
    /\ log[2].state = 2 /\ Emitted(2)
    /\ log[3].state = 2 /\ ~Emitted(3)
    /\ encoder.last_stable = 2

\* delivery j is a report of direction -1 or +1 on an absolute axis
AxisReport(j) ==
    /\ ~encoder.relative_axis
    /\ log[j].dir \in {-1, 1}
    /\ ~log[j].fault

\* C5: absolute axis, rollover, steps >= 1: a report of direction d at
\* position p in [0, steps) leaves (p + d) mod steps, so the position stays
\* in [0, steps) and a -1 report followed by a +1 report restores it.
C5_RolloverWraps ==
    (encoder.rollover /\ encoder.steps >= 1) =>
        /\ encoder.pos >= 0 /\ encoder.pos < encoder.steps
        /\ \A j \in 1 .. Len(log) :
             AxisReport(j) =>
                 log[j].pos = (log[j].pos0 + log[j].dir) % encoder.steps
        /\ \A j \in 1 .. Len(log) - 1 :
             ( /\ AxisReport(j) /\ AxisReport(j + 1)
               /\ log[j].dir = -1 /\ log[j + 1].dir = 1 )
             => log[j + 1].pos = log[j].pos0

\* C6: absolute axis, no rollover, from position 0: 0 <= position <= steps;
\* a +1 report at position = steps and a -1 report at position 0 leave the
\* position, every other report moves it by the direction.
C6_ClampAtBounds ==
    (~encoder.rollover) =>
        /\ encoder.pos >= 0 /\ encoder.pos <= encoder.steps
        /\ \A j \in 1 .. Len(log) :
             AxisReport(j) =>
                 log[j].pos =
                     IF log[j].dir = 1 /\ log[j].pos0 = encoder.steps
                        THEN log[j].pos0
                     ELSE IF log[j].dir = -1 /\ log[j].pos0 = 0
                        THEN log[j].pos0
                     ELSE log[j].pos0 + log[j].dir

C6_Witness ==
    /\ ~encoder.rollover /\ ~encoder.relative_axis /\ encoder.steps = 4
    /\ Len(log) = 2
    /\ log[1].pos0 = 3 /\ log[1].dir = 1 /\ log[1].pos = 4
    /\ log[2].pos0 = 4 /\ log[2].dir = 1 /\ log[2].pos = 4
    /\ log[2].ev = "abs" /\ log[2].value = 4
    /\ encoder.pos = 4

\* C7: in every decode mode, a sample identical to the sample delivered
\* immediately before it emits no event.
C7_DuplicateSampleSilent ==
    \A j \in 1 .. Len(log) - 1 :
        log[j + 1].state = log[j].state => ~Emitted(j + 1)

\* the value r is steps_per_period >> (ndescs - 2)
IsRatio(r) ==
    /\ r * 2 ^ (props.ndescs - 2) <= props.steps_per_period
    /\ props.steps_per_period < (r + 1) * 2 ^ (props.ndescs - 2)

\* probe has failed on the steps-per-period value, no handler registered
SppRejected ==
    /\ probe_pc = "failed"
    /\ probe_err = "steps-per-period"
    /\ irqs = {} /\ ~poll_dev

\* C8: without absolute_encoder the ratio steps_per_period >> (ndescs - 2)
\* selects quarter period for 4, half period for 2, full period for 1, and
\* any other value fails construction with no handler registered (two lines:
\* 1, 2, 4 select full, half, quarter and 3 fails); with absolute_encoder
\* construction never fails on the steps_per_period value.
C8_ModeSelection ==
    (probe_pc # "start" /\ props.ndescs >= 2) =>
        IF props.absolute_encoder
        THEN /\ probe_err # "steps-per-period"
             /\ handler = "rotary_absolute_encoder_irq"
        ELSE /\ IsRatio(4) => /\ handler = "rotary_encoder_quarter_period_irq"
                              /\ ~SppRejected
             /\ IsRatio(2) => /\ handler = "rotary_encoder_half_period_irq"
                              /\ ~SppRejected
             /\ IsRatio(1) => /\ handler = "rotary_encoder_irq"
                              /\ ~SppRejected
             /\ ~(IsRatio(1) \/ IsRatio(2) \/ IsRatio(4)) => SppRejected
             /\ props.ndescs = 2 =>
                  CASE props.steps_per_period = 1 ->
                           handler = "rotary_encoder_irq"
                    [] props.steps_per_period = 2 ->
                           handler = "rotary_encoder_half_period_irq"
                    [] props.steps_per_period = 4 ->
                           handler = "rotary_encoder_quarter_period_irq"
                    [] props.steps_per_period = 3 -> SppRejected
                    [] OTHER -> TRUE

C8_Witness ==
    /\ props.ndescs = 3 /\ props.steps_per_period = 5
    /\ ~props.absolute_encoder
    /\ handler = "rotary_encoder_half_period_irq"
    /\ probe_pc = "done"

\* a callback in the middle of its decode: between its first read of the
\* lines or of the encoder and its last write
Decoding(t) == pc[t] \in {"locked", "store", "unlock", "relock"}

\* C9: on every decode path (the three quadrature handlers, the absolute
\* handler, the poll callback) the samples are read, the decoder state is
\* written and the events are reported with the encoder's mutex held by the
\* callback.
C9_LockDiscipline ==
    \A t \in Threads : Decoding(t) => access_mutex = {t}

\* some delivery emitted an event; the last delivery that did
HasEvent == \E j \in 1 .. Len(log) : Emitted(j)
LastEmitted ==
    CHOOSE j \in 1 .. Len(log) :
        Emitted(j) /\ \A k \in j + 1 .. Len(log) : ~Emitted(k)

\* no callback stands between its report and its store of last_stable
Quiescent == \A t \in Threads : pc[t] # "store"

QuadratureHandlers == {"rotary_encoder_irq", "rotary_encoder_half_period_irq",
                       "rotary_encoder_quarter_period_irq"}

\* the history entry of a delivery that called rotary_encoder_report_event
\* or input_report_abs
Reported(x) == x.ev # "none" \/ x.fault

\* this step is thread t, inside its handler with the mutex held, calling
\* rotary_encoder_report_event on an absolute axis
ReporterStep(t) ==
    /\ t # PollThread
    /\ pc[t] = "locked" /\ access_mutex = {t}
    /\ handler \in QuadratureHandlers
    /\ ~encoder.relative_axis
    /\ log' # log /\ Reported(log'[Len(log')])
    /\ encoder'.pos = log'[Len(log')].pos

\* C11: position is changed only by the event reporter on an absolute-axis
\* report, with the encoder's mutex held: no probe step, no lock or unlock
\* step, no relative-axis report and no step of the absolute decoder
\* (interrupt or poll) changes it.
C11_PositionFrame ==
    [][encoder'.pos # encoder.pos => \E t \in Threads : ReporterStep(t)]_vars

C11_Witness ==
    /\ probe_pc = "done"
    /\ ~encoder.relative_axis
    /\ Len(log) = 2
    /\ log[2].ev = "abs" /\ log[2].pos0 = 0 /\ log[2].pos = 1
    /\ encoder.pos = 1

\* C12: in the absolute-encoder interrupt handler the lock acquisition at the
\* end is never reached: no execution of the handler tries to acquire the
\* encoder's mutex while it holds it.
C12_NoSecondAcquire ==
    \A t \in Threads :
        ~(pc[t] \in {"relock", "blocked"} /\ access_mutex = {t})

\* probe has failed on the number of lines
TooFewLines == probe_pc = "failed" /\ probe_err = "not enough gpios"

\* C13: fewer than two sensor lines fail construction in the quadrature
\* modes only; with absolute_encoder set, construction does not fail on the
\* line count for any n >= 1, n = 1 included.
C13_LineCountValidation ==
    (probe_pc # "start" /\ props.ndescs >= 1) =>
        IF props.absolute_encoder
        THEN ~TooFewLines
        ELSE TooFewLines <=> props.ndescs < 2

\* C14: in every mode an interrupt-handler invocation that has acquired the
\* encoder's mutex eventually releases it and returns (so the mutex is free
\* again and the next pending invocation can be decoded), under fair
\* scheduling of the handler threads.
C14_HandlerCompletes ==
    \A t \in 1 .. MaxLines :
        (pc[t] = "locked") ~> (pc[t] = "idle" /\ access_mutex = {})

\* delivery j of the absolute decoder follows the change detection: an
\* absolute event of value R exactly when the raw sample R differs from
\* last_stable, and last_stable = R once the callback has stored it
ChangeDetected(j) ==
    LET R == log[j].state
        L == log[j].last
    IN  /\ Emitted(j) <=> R # L
        /\ Emitted(j) => log[j].ev = "abs" /\ log[j].value = R
        /\ (j < Len(log) \/ Quiescent) => LastAfter(j) = R

\* while the lines have triggers left to raise, the registered callback
\* (interrupt handler or poll callback) can take its next step
TriggerDecoded == Len(log) < props.samples => ENABLED NextAbsolute

\* C15: absolute decoder, interrupt driven or polled: each trigger with raw
\* sample R emits an absolute event of value R if and only if R differs from
\* last_stable, and last_stable is R afterwards; the interrupt handler and the
\* poll callback decode the same sample sequence to the same events, each
\* trigger of the sequence being decoded by either.
C15_AbsoluteChangeDetection ==
    /\ \A j \in 1 .. Len(log) : ChangeDetected(j)
    /\ TriggerDecoded

\* C16: every event of the three quadrature decoders carries a direction that
\* is a signed unit: the direction handed to the event reporter is +1 or -1,
\* for every sample sequence from the freshly constructed encoder.
C16_DirectionIsSignedUnit ==
    \A j \in 1 .. Len(log) :
        (handler \in QuadratureHandlers /\ Reported(log[j]))
            => log[j].dir \in {-1, 1}

\* the reporter stops in pos %= 0 before it reaches the input device
DividesByZero ==
    /\ handler \in QuadratureHandlers
    /\ ~encoder.relative_axis /\ encoder.rollover /\ encoder.steps = 0

\* C17: in every interleaving of construction with edge interrupts, at every
\* event report encoder->input is already set: no handler reports to the
\* input device before probe has created and attached it.
C17_InputSetAtReport ==
    [][ ( /\ log' # log
          /\ Reported(log'[Len(log')])
          /\ ~DividesByZero )
        => encoder.input ]_vars

\* C18: half period: every event uses a direction computed from an odd
\* sample delivered after the previous event (after construction for the
\* first event); an even-to-even change with no odd sample in between emits
\* no event.
C18_HalfPeriodFreshDirection ==
    handler = "rotary_encoder_half_period_irq" =>
        \A j \in 1 .. Len(log) :
            Emitted(j) =>
                \E k \in 1 .. j - 1 :
                    /\ log[k].state % 2 = 1
                    /\ \A i \in k .. j - 1 : ~Emitted(i)

\* the samples delivered so far, and the same rotation turned the other way
Samples == [j \in 1 .. Len(log) |-> log[j].state]
Mirrored == [j \in 1 .. Len(log) |-> (4 - log[j].state) % 4]

\* the samples are a monotone rotation from state 0: 1, 2, 3, 0, ... for
\* d = 1 and 3, 2, 1, 0, ... for d = 3
MonotoneFromRest(d) ==
    /\ Len(log) >= 1
    /\ \A j \in 1 .. Len(log) : log[j].state = (j * d) % 4

Sign(x) == IF x > 0 THEN 1 ELSE IF x < 0 THEN -1 ELSE 0

\* the signs of the events the three quadrature decoders emit for the sample
\* sequence seq, each decoder started as probe leaves it at state 0
EventSigns(seq) ==
    { Sign(x) : x \in UNION { decoded_dirs(h, ProbedEncoder(props, 0), seq, 1) :
                                h \in QuadratureHandlers } }

RotationDir(h, d) ==
    IF h = "rotary_encoder_quarter_period_irq"
    THEN (IF d = 1 THEN 1 ELSE -1)
    ELSE (IF d = 1 THEN -1 ELSE 1)

RECURSIVE EmittedSum(_)
EmittedSum(j) ==
    IF j = 0 THEN 0
    ELSE EmittedSum(j - 1) + (IF Emitted(j) THEN log[j].dir ELSE 0)

\* every sample is the reference state it meets or adjacent to it
AdjacentSamples ==
    \A j \in 1 .. Len(log) :
        log[j].state \in {log[j].last, (log[j].last + 1) % 4,
                          (log[j].last + 3) % 4}

\* the samples bounce between the first reference state L and L + 1:
\* L + 1, L, L + 1, ...
Bounce ==
    \A j \in 1 .. Len(log) : log[j].state = (log[1].last + (j % 2)) % 4

\* C20: quarter period: when every sample equals the reference state or is
\* adjacent to it, the sum of the emitted directions is congruent modulo 4 to
\* last_stable minus the initial last_stable; a bounce L, L+1, L, L+1, ...
\* emits alternating +1 / -1 events whose running sum is always 0 or 1.
C20_QuarterPeriodDisplacement ==
    (handler = "rotary_encoder_quarter_period_irq" /\ AdjacentSamples) =>
        /\ \A j \in 1 .. Len(log) :
             (EmittedSum(j) - (LastAfter(j) - log[1].last)) % 4 = 0
        /\ Bounce =>
             \A j \in 1 .. Len(log) :
                 /\ Emitted(j)
                 /\ log[j].dir = (IF j % 2 = 1 THEN 1 ELSE -1)
                 /\ EmittedSum(j) \in {0, 1}

C20_Witness ==
    /\ handler = "rotary_encoder_quarter_period_irq"
    /\ Len(log) = 5
    /\ log[1].last = 3
    /\ Samples = <<0, 3, 0, 1, 1>>
    /\ EmittedSum(5) = 2
    /\ encoder.last_stable = 1

=============================================================================
